---- MODULE Spec2Model ----
(***************************************************************************)
(* aigate: the caching proxy of core/server.ts (startServer and its        *)
(* capability handlers), the cache stores of core/cache.ts and the        *)
(* provider adapters of integrations/openai.ts and                         *)
(* integrations/azure-openai.ts.                                           *)
(*                                                                         *)
(* A handler is one async function. It runs without interruption between   *)
(* two suspension points that wait for I/O: the SHA-256 digest of the      *)
(* uploaded file, the reply of the Redis server, and the reply of the      *)
(* upstream provider. MemoryCacher.get and MemoryCacher.set are async      *)
(* functions with a synchronous body: the Map is read or written at the    *)
(* call and the awaiting handler resumes in a microtask, before any other  *)
(* handler can run. Each action below is one such uninterrupted segment.   *)
(***************************************************************************)
EXTENDS Integers, Sequences, FiniteSets, TLC

VARIABLES
    config,     \* the cache section of the configuration (read-only after start)
    cache,      \* the store's content: MemoryCacher.cache, or the Redis keyspace
    pending,    \* RedisCacher.set calls started and not yet settled
    now,        \* Date.now(), in milliseconds
    reqs,       \* per request: the handler's position, its inputs and what it did
    setLog,     \* history: the writes that reached the store, oldest first
    purge,      \* MemoryCacher.purgeInterval: the timer, its unload listener
    image,      \* one call of azoai.imageGeneration: its position and polls
    cacherCall  \* one call of getCacher: the cache section given, the result

vars == <<config, cache, pending, now, reqs, setLog, purge, image, cacherCall>>

None == "none"      \* undefined: an absent header, field or member

----------------------------------------------------------------------------
(* Bounds *)

MaxRequests == 2    \* requests received in one behaviour
MaxTicks == 2       \* times the clock advances
TtlSeconds == 1     \* the configured cache.ttl when one is configured
MaxDiff == 1        \* inputs in which a later request differs from the first
MaxSets == 3        \* set calls on the store taken alone

Reqs == 1 .. MaxRequests

----------------------------------------------------------------------------
(* Configuration *)

\* config.providers: the configured provider names.
ProviderNames == {"oai", "az", "ant"}

\* config.providers is a plain object (JSON.parse, then ConfigSchema.parse):
\* besides its own keys it has the members it inherits from Object.prototype.
InheritedMembers == {"constructor"}

\* config.providers[p]: the provider's configuration, an inherited member
\* (a function, which is truthy), or undefined.
ProvidersMember(p) ==
    IF p \in ProviderNames THEN "config"
    ELSE IF p \in InheritedMembers THEN "inherited"
    ELSE None

\* config.providers[p].type (undefined for a member that is no configuration)
ProviderType(p) ==
    CASE p = "oai" -> "OpenAI"
      [] p = "az"  -> "Azure OpenAI Service"
      [] p = "ant" -> "Anthropic"
      [] OTHER -> None

\* config.authentication.api_key
ApiKey == "good"

\* The configurations. enabled, storage and ttl are the cache section:
\* caching off, the in-process store without and with a TTL, and the Redis
\* store. auth is authentication.enabled; limit is rate_limiting.limit, 0
\* when rate limiting is off.
Configs ==
    { [enabled |-> FALSE, storage |-> "memory", ttl |-> 0, auth |-> FALSE, limit |-> 0],
      [enabled |-> TRUE,  storage |-> "memory", ttl |-> 0, auth |-> FALSE, limit |-> 0],
      [enabled |-> TRUE,  storage |-> "memory", ttl |-> TtlSeconds, auth |-> FALSE, limit |-> 0],
      [enabled |-> TRUE,  storage |-> "redis",  ttl |-> TtlSeconds, auth |-> FALSE, limit |-> 0],
      [enabled |-> TRUE,  storage |-> "memory", ttl |-> 0, auth |-> TRUE, limit |-> 0],
      [enabled |-> TRUE,  storage |-> "memory", ttl |-> 0, auth |-> TRUE, limit |-> 1] }

\* startServer: cacher is defined only when config.cache.enabled.
HasCacher == config.enabled

\* getCacher: the Redis store when storage is "redis", else the in-process one.
IsMemory == config.storage # "redis"

----------------------------------------------------------------------------
(* JavaScript values *)

\* The value an adapter returns to the handler. kind tells what the provider
\* sent (its success payload or its error body); the handler never reads it.
JsUndefined == [kind |-> "undefined", data |-> <<>>, contentType |-> None]

\* Strings as the cache holds them: well-formed JSON text of a value, text
\* that is not JSON, and the two non-strings a lookup can yield.
Null == [text |-> "null", of |-> JsUndefined]
NoString == [text |-> "undefined", of |-> JsUndefined]
Malformed == [text |-> "malformed", of |-> JsUndefined]

\* JSON.stringify(v): undefined for undefined, else the JSON text of v.
JSONstringify(v) ==
    IF v.kind = "undefined" THEN NoString ELSE [text |-> "json", of |-> v]

\* JSON.parse(s) throws a SyntaxError unless s is JSON text.
JSONparseThrows(s) == s.text # "json"
JSONparse(s) == s.of

\* if (cached): null and undefined are falsy, a non-empty string is truthy.
Truthy(s) == s.text \notin {"null", "undefined"}

----------------------------------------------------------------------------
(* Request bodies: the members of req.body in insertion order *)

HasField(data, f) == \E i \in 1 .. Len(data) : data[i][1] = f
Field(data, f) ==
    IF HasField(data, f)
    THEN data[CHOOSE i \in 1 .. Len(data) : data[i][1] = f][2]
    ELSE None

BodyChat == << <<"model", "gpt-x">>, <<"messages", "m1">> >>
BodyChatReordered == << <<"messages", "m1">>, <<"model", "gpt-x">> >>
BodyStream == << <<"model", "gpt-x">>, <<"messages", "m1">>, <<"stream", "true">> >>
BodyInput == << <<"input", "x">> >>
BodyWithProvider == << <<"provider", "oai">>, <<"model", "gpt-x">>, <<"messages", "m1">> >>

BodyDeployment == << <<"model", "gpt-x">>, <<"messages", "m1">>, <<"deploymentId", "d1">> >>

Bodies == {BodyChat, BodyChatReordered, BodyStream, BodyInput, BodyWithProvider,
           BodyDeployment}


----------------------------------------------------------------------------
(* Validation: the zod schemas of the adapters *)

\* The schema a handler parses the body with, by endpoint and provider type.
SchemaOf(ep, ptype) ==
    CASE ep = "chat" /\ ptype = "OpenAI" -> "OpenAIChatCompletionArgs"
      [] ep = "chat" /\ ptype # "OpenAI" -> "AzureOpenAIChatCompletionArgs"
      [] ep = "completion" /\ ptype = "OpenAI" -> "OpenAICompletionArgs"
      [] ep = "completion" /\ ptype # "OpenAI" -> "AzureOpenAICompletionArgs"
      [] ep = "transcriptions" -> "AzureOpenAIAudioTranscriptionArgs"
      [] ep = "embeddings" -> "AzureOpenAIEmbeddingsArgs"

\* The members a schema declares without .optional().
RequiredFields(schema) ==
    CASE schema = "OpenAIChatCompletionArgs" -> {"model", "messages"}
      [] schema = "AzureOpenAIChatCompletionArgs" -> {"messages"}
      [] schema = "AzureOpenAIEmbeddingsArgs" -> {"input"}
      [] OTHER -> {}

\* schema.parse(data) throws a ZodError when a required member is missing
\* (the member values of Bodies all have the declared types).
ParseThrows(schema, data) ==
    \E f \in RequiredFields(schema) : ~HasField(data, f)

----------------------------------------------------------------------------
(* The cache key *)

\* crypto.subtle.digest("SHA-256", file.buffer): an ArrayBuffer holding the
\* digest, different for different file contents.
Digest(file) == <<"sha256", file>>

\* JSON.stringify of an ArrayBuffer: it has no enumerable own property, so
\* its JSON text is "{}" whatever bytes it holds.
StringifyArrayBuffer(buf) == "{}"

\* JSON.stringify({ provider, data }) and, for /audio/transcriptions,
\* JSON.stringify({ provider, data, fileHash }): the text lists the members
\* of data in insertion order.
StringifyKey(provider, data, hashText) ==
    [provider |-> provider, data |-> data, fileHash |-> hashText]

\* const provider = data.provider || req.header("X-Provider")
ResolveProvider(req) ==
    IF HasField(req.body, "provider") THEN Field(req.body, "provider") ELSE req.hprov

CacheKey(req) ==
    IF req.ep = "transcriptions"
    THEN StringifyKey(ResolveProvider(req), req.body, StringifyArrayBuffer(Digest(req.file)))
    ELSE StringifyKey(ResolveProvider(req), req.body, None)

----------------------------------------------------------------------------
(* MemoryCacher *)

MapSet(map, k, e) == [x \in DOMAIN map \cup {k} |-> IF x = k THEN e ELSE map[x]]
MapDelete(map, k) == [x \in DOMAIN map \ {k} |-> map[x]]
EmptyMap == [x \in {} |-> Null]

\* Variant: an entry expires already at its deadline (>= for >).
ExpiredAtDeadline(entry, t) == entry.hasExpires /\ t >= entry.expires

\* value.expires && Date.now() > value.expires
Expired(entry, t) == entry.hasExpires /\ t > entry.expires

\* MemoryCacher.get: what it returns ...
MemGetValue(map, key, t) ==
    IF key \notin DOMAIN map THEN Null
    ELSE IF Expired(map[key], t) THEN Null
    ELSE map[key].value

\* ... and what it leaves in the Map (an expired entry is deleted on read).
MemGetMap(map, key, t) ==
    IF key \in DOMAIN map /\ Expired(map[key], t) THEN MapDelete(map, key) ELSE map

\* Variant: set keeps the expiry of an entry the key already has.
MemSetKeepingExpiry(map, key, value, ttl, t) ==
    MapSet(map, key,
        [value |-> value,
         hasExpires |-> ttl # 0,
         expires |-> IF ttl = 0 THEN 0
                     ELSE IF key \in DOMAIN map THEN map[key].expires
                     ELSE t + ttl * 1000])

\* Variant: a set that repeats the value of the entry starts the Map afresh
\* with the one entry.
MemSetClearing(map, key, value, ttl, t) ==
    MapSet(IF key \in DOMAIN map /\ map[key].value = value THEN EmptyMap ELSE map, key,
        [value |-> value,
         hasExpires |-> ttl # 0,
         expires |-> IF ttl # 0 THEN t + ttl * 1000 ELSE 0])

\* Variant: set writes the value into every entry of the Map.
MemSetAllKeys(map, key, value, ttl, t) ==
    [x \in DOMAIN map \cup {key} |->
        [value |-> value,
         hasExpires |-> ttl # 0,
         expires |-> IF ttl # 0 THEN t + ttl * 1000 ELSE 0]]

\* Variant: set gives every entry an expiry, also without a ttl.
MemSetAlwaysExpiring(map, key, value, ttl, t) ==
    MapSet(map, key,
        [value |-> value, hasExpires |-> TRUE, expires |-> t + ttl * 1000])

\* MemoryCacher.set: expires is set only when ttl is truthy.
MemSet(map, key, value, ttl, t) ==
    MapSet(map, key,
        [value |-> value,
         hasExpires |-> ttl # 0,
         expires |-> IF ttl # 0 THEN t + ttl * 1000 ELSE 0])

\* Variant: the sweep removes nothing.
PurgeNothing(map, t) == map

\* Variant: the sweep removes an entry already at its deadline.
PurgeAtDeadline(map, t) ==
    [k \in {x \in DOMAIN map : ~(map[x].hasExpires /\ t >= map[x].expires)} |-> map[k]]

\* purgeInterval: the sweep deletes every entry with
\* value.expires && Date.now() > value.expires.
Purge(map, t) ==
    [k \in {x \in DOMAIN map : ~(map[x].hasExpires /\ t > map[x].expires)} |-> map[k]]

\* The purge timer after getCacher ran at the start of the server. A
\* MemoryCacher is made when caching is on and storage is not "redis".
\* purgeInterval = setInterval(...) is a field initializer: it runs with
\* every construction, before the constructor body. The constructor
\* registers the unload listener that clears the timer only if (this.ttl).
Constructed(c) ==
    IF c.enabled /\ c.storage # "redis"
    THEN [timer |-> "running", listener |-> c.ttl # 0, loaded |-> TRUE]
    ELSE [timer |-> "none", listener |-> FALSE, loaded |-> TRUE]

\* The unload event: the registered listener calls clearInterval.
Unloaded(p) ==
    [p EXCEPT !.loaded = FALSE,
              !.timer = IF p.listener /\ p.timer = "running" THEN "cleared" ELSE @]

\* azoai.imageGeneration and getCacher before they are called.
ImageIdle == [pc |-> "idle", tries |-> 0, polls |-> 0, last |-> None, outcome |-> None]
NoCacherCall == [section |-> None, result |-> None]

----------------------------------------------------------------------------
(* Responses *)

\* res.json(resp)
JsonResponse(v) ==
    [status |-> 200, xcache |-> None, contentType |-> "application/json",
     body |-> v, cached |-> FALSE, error |-> None, message |-> None]

\* res.header("X-Cache-Status", "HIT").json({ ...JSON.parse(cached), cached: true })
HitJsonResponse(v) ==
    [status |-> 200, xcache |-> "HIT", contentType |-> "application/json",
     body |-> v, cached |-> TRUE, error |-> None, message |-> None]

\* res.header("Content-Type", resp.contentType).send(resp.data)
SendResponse(v) ==
    [status |-> 200, xcache |-> None, contentType |-> v.contentType,
     body |-> [v EXCEPT !.contentType = None], cached |-> FALSE,
     error |-> None, message |-> None]

\* Variant: a cached transcription is sent as JSON.
HitSendResponseAsJson(v) ==
    [status |-> 200, xcache |-> "HIT", contentType |-> "application/json",
     body |-> [v EXCEPT !.contentType = None], cached |-> FALSE,
     error |-> None, message |-> None]

\* res.header("X-Cache-Status", "HIT").header("Content-Type", ...).send(resp.data)
HitSendResponse(v) ==
    [status |-> 200, xcache |-> "HIT", contentType |-> v.contentType,
     body |-> [v EXCEPT !.contentType = None], cached |-> FALSE,
     error |-> None, message |-> None]

\* The members of the JSON object a response sends as its body: those of
\* the value, and cached: true where the handler adds it.
ResponseBody(resp) == [value |-> resp.body, cached |-> resp.cached]

\* res.status(400).json({ error: "Invalid provider.", source: "proxy" })
InvalidProviderResponse ==
    [status |-> 400, xcache |-> None, contentType |-> "application/json",
     body |-> JsUndefined, cached |-> FALSE,
     error |-> "Invalid provider.", message |-> None]

\* res.status(401).json({ error: "Authentication required.", source: "proxy" })
AuthenticationRequiredResponse ==
    [status |-> 401, xcache |-> None, contentType |-> "application/json",
     body |-> JsUndefined, cached |-> FALSE,
     error |-> "Authentication required.", message |-> None]

\* res.status(403).json({ error: "Invalid API key.", source: "proxy" })
InvalidApiKeyResponse ==
    [status |-> 403, xcache |-> None, contentType |-> "application/json",
     body |-> JsUndefined, cached |-> FALSE,
     error |-> "Invalid API key.", message |-> None]

\* The answer of the rate limiter to a request over the limit.
TooManyRequestsResponse ==
    [status |-> 429, xcache |-> None, contentType |-> "text/html",
     body |-> JsUndefined, cached |-> FALSE,
     error |-> "Too many requests.", message |-> None]

\* res.status(500).json({ error: "Internal server error.", message, source })
InternalErrorResponse(err) ==
    [status |-> 500, xcache |-> None, contentType |-> "application/json",
     body |-> JsUndefined, cached |-> FALSE,
     error |-> "Internal server error.", message |-> err]

----------------------------------------------------------------------------
(* The handlers of startServer.                                            *)
(* A handler segment maps an effect record e to the effect record after    *)
(* it: e.req is the request, e.cache, e.pending and e.log the store, the   *)
(* started Redis writes and the write history.                             *)

IdleReq ==
    [pc |-> "idle", ep |-> None, hprov |-> None, body |-> <<>>, noCache |-> FALSE,
     depHdr |-> None, file |-> None, key |-> None,
     resps |-> <<>>, gets |-> 0, sets |-> 0, calls |-> 0,
     lookup |-> None, up |-> None, err |-> None, dep |-> None]

Effect(r) ==
    [slot |-> r, req |-> reqs[r], cache |-> cache, pending |-> pending, log |-> setLog]

Respond(e, resp) == [e EXCEPT !.req.resps = Append(@, resp)]

\* The handler returns.
Return(e) == [e EXCEPT !.req.pc = "done"]

\* An exception leaves the handler: its promise rejects and nothing responds.
Reject(e, err) == [e EXCEPT !.req.pc = "rejected", !.req.err = err]

\* ZodError.message is the JSON text of the issues; the message of a fetch
\* failure, of a SyntaxError, of a TypeError or of a Redis error is not JSON.
MessageIsJson(err) == err = "ZodError"

\* The catch blocks. /chat/completion and /embeddings answer with
\* message: JSON.parse(e.message), which throws inside the catch block when
\* the message is not JSON; /completion and /audio/transcriptions answer
\* with message: e.message.
Catch(e, err) ==
    IF e.req.ep \in {"chat", "embeddings"} /\ ~MessageIsJson(err)
    THEN Reject(e, err)
    ELSE Return(Respond([e EXCEPT !.req.err = err], InternalErrorResponse(err)))

\* Variant: a set on a key that has an entry leaves the entry as it is.
CacherSetFirstWins(e, key, value) ==
    IF ~HasCacher THEN e
    ELSE IF IsMemory
    THEN [e EXCEPT !.cache = IF key \in DOMAIN @ THEN @
                              ELSE MemSet(@, key, value, config.ttl, now),
                   !.req.sets = @ + 1,
                   !.log = Append(@, [slot |-> e.slot, key |-> key, value |-> value,
                                      up |-> e.req.up, at |-> now])]
    ELSE [e EXCEPT !.pending = @ \cup {[slot |-> e.slot, key |-> key, value |-> value,
                                        up |-> e.req.up]},
                   !.req.sets = @ + 1]

\* cacher?.set(key, value): nothing without a cacher; MemoryCacher.set writes
\* the Map at the call; RedisCacher.set starts a write that settles later.
\* The promise is not awaited.
CacherSet(e, key, value) ==
    IF ~HasCacher THEN e
    ELSE IF IsMemory
    THEN [e EXCEPT !.cache = MemSet(@, key, value, config.ttl, now),
                   !.req.sets = @ + 1,
                   !.log = Append(@, [slot |-> e.slot, key |-> key, value |-> value,
                                      up |-> e.req.up, at |-> now])]
    ELSE [e EXCEPT !.pending = @ \cup {[slot |-> e.slot, key |-> key, value |-> value,
                                        up |-> e.req.up]},
                   !.req.sets = @ + 1]

\* Variant: the result is written to the cache before and after responding.
OnAdapterValueWritingTwice(e, v) ==
    CASE e.req.ep \in {"chat", "completion", "transcriptions"} ->
            Return(CacherSet(Respond(CacherSet(e, CacheKey(e.req), JSONstringify(v)),
                                     IF e.req.ep = "transcriptions"
                                     THEN SendResponse(v) ELSE JsonResponse(v)),
                             CacheKey(e.req), JSONstringify(v)))
      [] e.req.ep = "embeddings" ->
            Return(Respond(e, JsonResponse(v)))

\* After the adapter returned resp: respond, then write the cache.
\* /embeddings does not write.
OnAdapterValue(e, v) ==
    CASE e.req.ep \in {"chat", "completion"} ->
            Return(CacherSet(Respond(e, JsonResponse(v)), CacheKey(e.req), JSONstringify(v)))
      [] e.req.ep = "transcriptions" ->
            Return(CacherSet(Respond(e, SendResponse(v)), CacheKey(e.req), JSONstringify(v)))
      [] e.req.ep = "embeddings" ->
            Return(Respond(e, JsonResponse(v)))

\* The adapter's fetch is started: the handler waits for the provider.
StartFetch(e) ==
    [e EXCEPT !.req.pc = "fetch", !.req.calls = @ + 1,
              !.req.dep = IF e.req.depHdr # None THEN e.req.depHdr
                          ELSE Field(e.req.body, "deploymentId")]

\* schema.parse(data) is an argument of the adapter call: a ZodError is
\* thrown before the adapter runs.
ParseThenFetch(e, ptype) ==
    IF ParseThrows(SchemaOf(e.req.ep, ptype), e.req.body)
    THEN Catch(e, "ZodError")
    ELSE StartFetch(e)

\* The dispatch on providerConfig.type, after a cache miss or without lookup.
Dispatch(e) ==
    LET ptype == ProviderType(ResolveProvider(e.req))
        ep == e.req.ep
        stream == Field(e.req.body, "stream") = "true"
    IN  CASE ep = "chat" /\ ptype \in {"OpenAI", "Azure OpenAI Service"} ->
                \* if (data.stream) { TODO } : falls out of the try block
                IF stream THEN Return(e) ELSE ParseThenFetch(e, ptype)
          [] ep = "completion" /\ ptype = "OpenAI" ->
                \* oai.completion is an empty async function: resp is undefined
                IF ParseThrows(SchemaOf(ep, ptype), e.req.body)
                THEN Catch(e, "ZodError")
                ELSE OnAdapterValue(e, JsUndefined)
          [] ep = "completion" /\ ptype = "Azure OpenAI Service" ->
                ParseThenFetch(e, ptype)
          [] ep = "transcriptions" /\ ptype = "Azure OpenAI Service" ->
                ParseThenFetch(e, ptype)
          [] ep = "embeddings" /\ ptype = "Azure OpenAI Service" ->
                ParseThenFetch(e, ptype)
          \* no branch for the type, a TODO branch, or a bare return
          [] OTHER -> Return(e)

\* if (cached) { respond HIT; return }, else go on to the dispatch.
AfterGet(e, cached) ==
    IF Truthy(cached)
    THEN IF JSONparseThrows(cached)
         THEN Catch([e EXCEPT !.req.lookup = "malformed"], "SyntaxError")
         ELSE Return(Respond([e EXCEPT !.req.lookup = "hit"],
                    IF e.req.ep = "transcriptions"
                    THEN HitSendResponse(JSONparse(cached))
                    ELSE HitJsonResponse(JSONparse(cached))))
    ELSE Dispatch([e EXCEPT !.req.lookup = "miss"])

\* Variant: the lookup does not test the Cache-Control header.
CacheStageIgnoringNoCache(e) ==
    IF e.req.ep # "embeddings" /\ HasCacher
    THEN IF IsMemory
         THEN AfterGet([e EXCEPT !.req.gets = @ + 1,
                                 !.cache = MemGetMap(@, CacheKey(e.req), now)],
                       MemGetValue(e.cache, CacheKey(e.req), now))
         ELSE [e EXCEPT !.req.gets = @ + 1, !.req.pc = "get"]
    ELSE Dispatch(e)

\* if (cacher && !req.header("Cache-Control")?.includes("no-cache")) { get }
\* /embeddings has no cache code.
CacheStage(e) ==
    IF e.req.ep # "embeddings" /\ HasCacher /\ ~e.req.noCache
    THEN IF IsMemory
         THEN AfterGet([e EXCEPT !.req.gets = @ + 1,
                                 !.cache = MemGetMap(@, CacheKey(e.req), now)],
                       MemGetValue(e.cache, CacheKey(e.req), now))
         ELSE [e EXCEPT !.req.gets = @ + 1, !.req.pc = "get"]
    ELSE Dispatch(e)

\* The start of a handler: the provider check
\* if (!config.providers[provider]), then (for
\* /audio/transcriptions) the digest of the uploaded file, which reads
\* req.file.buffer inside the try block.
Start(e) ==
    IF ProvidersMember(ResolveProvider(e.req)) = None
    THEN Return(Respond(e, InvalidProviderResponse))
    ELSE IF e.req.ep = "transcriptions"
    THEN IF e.req.file = None
         THEN Catch(e, "TypeError")
         ELSE [e EXCEPT !.req.pc = "digest"]
    ELSE CacheStage(e)

\* rateLimit({ windowMs, max: limit, keyGenerator: () => "" }): one counter
\* for all requests; a request is answered 429 when the requests counted in
\* the window, itself included, are more than the limit. The requests of a
\* behaviour arrive within one window, so request number n is the n-th hit.
RateLimited(n) == config.limit # 0 /\ n > config.limit

\* Variant: the middleware tests only that an X-API-Key header is present.
AuthenticateAnyKey(e) ==
    IF ~config.auth THEN Start(e)
    ELSE IF e.req.key = None
    THEN Return(Respond(e, AuthenticationRequiredResponse))
    ELSE Start(e)

\* The authentication middleware (registered only when
\* config.authentication.enabled): 401 without X-API-Key, 403 with another
\* key than the configured one, else next(), which runs the handler.
Authenticate(e) ==
    IF ~config.auth THEN Start(e)
    ELSE IF e.req.key = None
    THEN Return(Respond(e, AuthenticationRequiredResponse))
    ELSE IF e.req.key # ApiKey
    THEN Return(Respond(e, InvalidApiKeyResponse))
    ELSE Start(e)

\* The middleware chain in the order of registration: the rate limiter,
\* the authentication, the handler of the route.
Middleware(e) ==
    IF RateLimited(e.slot)
    THEN Return(Respond(e, TooManyRequestsResponse))
    ELSE Authenticate(e)

----------------------------------------------------------------------------
(* What the environment supplies *)

Endpoints == {"chat", "completion", "transcriptions", "embeddings"}
HeaderProviders == {None, "oai", "az", "ant", "nope", "constructor"}
DeploymentHeaders == {None, "d2"}
Files == {"f1", "f2"}
ApiKeyHeaders == {None, "good", "bad"}

\* The requests: an endpoint, the X-Provider header, the body, whether
\* Cache-Control holds no-cache, the Azure-OpenAI-Deployment-Id header and
\* the uploaded file, and the X-API-Key header. A header or file that the
\* endpoint's handler or the registered middleware never reads is left out.
Inputs ==
    { i \in [ep : Endpoints, hprov : HeaderProviders, body : Bodies,
             noCache : BOOLEAN, depHdr : DeploymentHeaders, file : Files \cup {None},
             key : ApiKeyHeaders] :
        /\ (i.key # None) => config.auth
        /\ (i.file # None) => i.ep = "transcriptions"
        /\ i.noCache => i.ep # "embeddings"
        /\ (i.depHdr # None) => ResolveProvider(i) = "az" }

\* The number of inputs in which two requests differ.
Diff(i, j) ==
    Cardinality({f \in {"ep", "hprov", "body", "noCache", "depHdr", "file", "key"} :
                    i[f] # j[f]})

\* What the provider's HTTP reply makes the adapter return: the parsed JSON
\* body whatever the status (chatCompletion, completion, embeddings), or
\* { data, contentType } of the text body (audioTranscription), where
\* contentType is the reply's Content-Type header or "text/plain". Every
\* reply of the provider is a new text: the reply to request r is named
\* after r.
ReplyText(r) == <<"reply", r>>
ErrorText(r) == <<"error", r>>

AdapterValues(ep, r) ==
    IF ep = "transcriptions"
    THEN { [kind |-> "success", data |-> ReplyText(r), contentType |-> "text/plain"],
           [kind |-> "error", data |-> ErrorText(r), contentType |-> "application/json"] }
    ELSE { [kind |-> "success", data |-> ReplyText(r), contentType |-> None],
           [kind |-> "error", data |-> ErrorText(r), contentType |-> None] }

\* What the adapter throws: fetch rejects when the provider is unreachable;
\* resp.json() throws a SyntaxError when the body is not JSON (resp.text()
\* of audioTranscription never does).
AdapterErrors(ep) ==
    IF ep = "transcriptions" THEN {"FetchError"} ELSE {"FetchError", "SyntaxError"}

----------------------------------------------------------------------------
(* Actions *)

Apply(e) ==
    /\ reqs' = [reqs EXCEPT ![e.slot] = e.req]
    /\ cache' = e.cache
    /\ pending' = e.pending
    /\ setLog' = e.log
    /\ UNCHANGED <<purge, image, cacherCall, config, now>>

\* A request arrives, passes the middleware and its handler runs to its
\* first suspension point.
\* Requests are numbered in the order of arrival.
Receive(r) ==
    /\ reqs[r].pc = "idle"
    /\ \A q \in Reqs : q < r => reqs[q].pc # "idle"
    /\ \E i \in Inputs :
         /\ r > 1 => Diff(i, reqs[1]) <= MaxDiff
         /\ Apply(Middleware([Effect(r) EXCEPT
                        !.req = [IdleReq EXCEPT !.pc = "start", !.ep = i.ep,
                                    !.hprov = i.hprov, !.body = i.body,
                                    !.noCache = i.noCache, !.depHdr = i.depHdr,
                                    !.file = i.file, !.key = i.key]]))

\* crypto.subtle.digest resolves.
DigestDone(r) ==
    /\ reqs[r].pc = "digest"
    /\ Apply(CacheStage(Effect(r)))

\* RedisCacher.get resolves with the stored string, or null.
RedisGetResolve(r) ==
    /\ reqs[r].pc = "get"
    /\ LET key == CacheKey(reqs[r])
       IN  Apply(AfterGet(Effect(r),
                          IF key \in DOMAIN cache THEN cache[key].value ELSE Null))

\* RedisCacher.get rejects (connect failed, connection lost): the await
\* throws inside the handler's try block.
RedisGetReject(r) ==
    /\ reqs[r].pc = "get"
    /\ Apply(Catch([Effect(r) EXCEPT !.req.lookup = "rejected"], "RedisError"))

\* The provider replies and the adapter returns.
UpstreamResolve(r) ==
    /\ reqs[r].pc = "fetch"
    /\ \E v \in AdapterValues(reqs[r].ep, r) :
         Apply(OnAdapterValue([Effect(r) EXCEPT !.req.up = v.kind], v))

\* The adapter throws.
UpstreamThrow(r) ==
    /\ reqs[r].pc = "fetch"
    /\ \E err \in AdapterErrors(reqs[r].ep) :
         Apply(Catch([Effect(r) EXCEPT !.req.up = err], err))

\* A started RedisCacher.set reaches the server: SET key value EX ttl.
\* A value that is no string (JSON.stringify(undefined)) is not stored as
\* JSON text.
RedisSetLand(w) ==
    /\ w \in pending
    /\ pending' = pending \ {w}
    /\ cache' = MapSet(cache, w.key,
                   [value |-> IF w.value = NoString THEN Malformed ELSE w.value,
                    hasExpires |-> FALSE, expires |-> 0])
    /\ setLog' = Append(setLog, [slot |-> w.slot, key |-> w.key, value |-> w.value,
                                 up |-> w.up, at |-> now])
    /\ UNCHANGED <<purge, image, cacherCall, config, now, reqs>>

\* Variant: the handler awaits the write inside its try block, so that a
\* rejected write reaches the catch block and answers a second time.
RedisSetRejectFailsRequest(w) ==
    /\ w \in pending
    /\ pending' = pending \ {w}
    /\ reqs' = [reqs EXCEPT ![w.slot].resps =
                    Append(@, InternalErrorResponse("RedisError"))]
    /\ UNCHANGED <<purge, image, cacherCall, config, cache, now, setLog>>

\* A started RedisCacher.set rejects: nobody awaits the promise.
RedisSetReject(w) ==
    /\ w \in pending
    /\ pending' = pending \ {w}
    /\ UNCHANGED <<purge, image, cacherCall, config, cache, now, reqs, setLog>>

\* Another writer of the same Redis keyspace (another program, an older
\* version of this one) stores text that is not JSON under the key a
\* handler is looking up.
RedisForeignWrite(r) ==
    /\ HasCacher /\ ~IsMemory
    /\ reqs[r].pc = "get"
    /\ MemGetValue(cache, CacheKey(reqs[r]), now) # Malformed
    /\ cache' = MapSet(cache, CacheKey(reqs[r]),
                       [value |-> Malformed, hasExpires |-> FALSE, expires |-> 0])
    /\ setLog' = Append(setLog, [slot |-> 0, key |-> CacheKey(reqs[r]),
                                 value |-> Malformed, up |-> None, at |-> now])
    /\ UNCHANGED <<purge, image, cacherCall, config, pending, now, reqs>>

\* Time passes. Only MemoryCacher with a TTL reads the clock, and only to
\* compare it with the expiry of an entry: the time before the first write
\* is not counted.
Tick ==
    /\ HasCacher /\ IsMemory /\ config.ttl # 0
    /\ DOMAIN cache # {}
    /\ now < MaxTicks * 1000
    /\ now' = now + 1000
    /\ UNCHANGED <<purge, image, cacherCall, config, cache, pending, reqs, setLog>>

Init ==
    /\ config \in Configs
    /\ cache = EmptyMap
    /\ pending = {}
    /\ now = 0
    /\ reqs = [r \in Reqs |-> IdleReq]
    /\ setLog = <<>>
    /\ purge = Constructed(config)
    /\ image = ImageIdle
    /\ cacherCall = NoCacherCall

Next ==
    \/ \E r \in Reqs : Receive(r)
    \/ \E r \in Reqs : DigestDone(r)
    \/ \E r \in Reqs : RedisGetResolve(r)
    \/ \E r \in Reqs : RedisGetReject(r)
    \/ \E r \in Reqs : UpstreamResolve(r)
    \/ \E r \in Reqs : UpstreamThrow(r)
    \/ \E w \in pending : RedisSetLand(w)
    \/ \E w \in pending : RedisSetReject(w)
    \/ \E r \in Reqs : RedisForeignWrite(r)
    \/ Tick

Spec == Init /\ [][Next]_vars

----------------------------------------------------------------------------
(* Vocabulary of the properties *)

\* Request r was received and the middleware passed it on to the handler
\* of its route.
Admitted(r) ==
    /\ reqs[r].pc # "idle"
    /\ ~RateLimited(r)
    /\ config.auth => reqs[r].key = ApiKey

\* The handler of request r has ended: it returned, or its promise rejected.
Final(r) == reqs[r].pc \in {"done", "rejected"}

\* The upstream call of request r failed: an error body (non-success
\* status), an unreachable provider, or a reply that is not JSON.
UpstreamFailed(r) == reqs[r].up \in {"error", "FetchError", "SyntaxError"}

\* Request r was answered from the cache.
AnsweredHit(r) ==
    \E i \in 1 .. Len(reqs[r].resps) : reqs[r].resps[i].xcache = "HIT"

\* Request r was answered with a failure envelope.
AnsweredFailure(r) ==
    /\ Len(reqs[r].resps) = 1
    /\ reqs[r].resps[1].status # 200
    /\ reqs[r].resps[1].error # None

\* Two requests to the same endpoint with the same provider, body and file.
SameRequest(a, b) ==
    /\ a.ep = b.ep
    /\ ResolveProvider(a) = ResolveProvider(b)
    /\ a.body = b.body
    /\ a.file = b.file

\* The result of a request like req is in the store: such a request wrote
\* JSON text, nothing was written under that key since, and its TTL has not
\* run out.
StoredFor(req) ==
    \E i \in 1 .. Len(setLog) :
        /\ setLog[i].slot \in Reqs
        /\ SameRequest(reqs[setLog[i].slot], req)
        /\ setLog[i].value.text = "json"
        /\ \A j \in (i + 1) .. Len(setLog) : setLog[j].key # setLog[i].key
        /\ (IsMemory /\ config.ttl # 0) => now <= setLog[i].at + config.ttl * 1000

\* The step in which the store's answer to the cacher.get of r arrives.
LookupStep(r) ==
    /\ reqs[r].lookup = None
    /\ reqs'[r].lookup \in {"hit", "miss", "malformed"}

----------------------------------------------------------------------------
(* C1: if the upstream call of a request fails (unreachable provider,      *)
(* non-success status, error body), the request performs no cacher.set.    *)
C1_NoWriteAfterUpstreamFailure ==
    \A r \in Reqs : UpstreamFailed(r) => reqs[r].sets = 0

(* C2 (Scenario A): when the result of an earlier identical request is in  *)
(* the store and its TTL has not run out, a request without no-cache whose *)
(* lookup is answered by the store is a hit: it gets one response, with    *)
(* X-Cache-Status: HIT, and the upstream adapter is not invoked for it.    *)
C2_ScenarioA ==
    [][\A r \in Reqs :
          (LookupStep(r) /\ StoredFor(reqs'[r])) =>
              /\ reqs'[r].lookup = "hit"
              /\ reqs'[r].pc = "done"
              /\ Len(reqs'[r].resps) = 1
              /\ reqs'[r].resps[1].xcache = "HIT"
              /\ reqs'[r].resps[1].status = 200
              /\ reqs'[r].calls = 0]_vars

C2_Witness ==
    \E r, q \in Reqs :
        /\ q < r
        /\ SameRequest(reqs[q], reqs[r])
        /\ reqs[q].lookup = "miss" /\ reqs[q].calls = 1 /\ reqs[q].sets = 1
        /\ reqs[q].up = "success"
        /\ reqs[r].lookup = "hit" /\ reqs[r].calls = 0
        /\ AnsweredHit(r)

\* On a cache miss a request like req gets as far as the fetch of an
\* adapter: its provider is configured with a type the endpoint has an
\* adapter call for, the body of a chat request asks for no stream, the file
\* is there and the body passes the schema.
HasAdapterCall(req) ==
    /\ ResolveProvider(req) \in ProviderNames
    /\ LET ptype == ProviderType(ResolveProvider(req))
       IN  \/ /\ req.ep = "chat"
              /\ ptype \in {"OpenAI", "Azure OpenAI Service"}
              /\ Field(req.body, "stream") # "true"
           \/ req.ep \in {"completion", "transcriptions"} /\ ptype = "Azure OpenAI Service"

ReachesAdapter(req) ==
    /\ HasAdapterCall(req)
    /\ req.ep = "transcriptions" => req.file # None
    /\ ~ParseThrows(SchemaOf(req.ep, ProviderType(ResolveProvider(req))), req.body)

C4_DifferentFilesNotShared ==
    \A r, q \in Reqs :
        ( /\ r # q
          /\ reqs[r].ep = "transcriptions" /\ reqs[q].ep = "transcriptions"
          /\ reqs[r].file # reqs[q].file ) =>
            ~ \E i \in 1 .. Len(reqs[r].resps) :
                  /\ reqs[r].resps[i].xcache = "HIT"
                  /\ reqs[r].resps[i].body.data = ReplyText(q)

(* C5: a cache hit on one endpoint never returns an entry that a request   *)
(* to a different endpoint wrote.                                          *)
C5_HitFromSameEndpoint ==
    \A r, q \in Reqs :
        (r # q /\ reqs[q].ep # reqs[r].ep) =>
            ~ \E i \in 1 .. Len(reqs[r].resps) :
                  /\ reqs[r].resps[i].xcache = "HIT"
                  /\ reqs[r].resps[i].body.data = ReplyText(q)

(* C6: once the handler of a request has ended, the request has received   *)
(* exactly one response.                                                   *)
C6_ExactlyOneResponse ==
    \A r \in Reqs : Final(r) => Len(reqs[r].resps) = 1

(* C7: when the upstream call failed, the handler answers with a failure   *)
(* envelope (non-success status) and never with a success response.        *)
C7_UpstreamFailureIsFailure ==
    \A r \in Reqs : (UpstreamFailed(r) /\ Final(r)) => AnsweredFailure(r)

(* C8: a rejected cacher.get is treated as a miss: a request that calls    *)
(* upstream on a miss calls upstream, and its handler does not end in the  *)
(* catch block with the store's error.                                     *)
C8_GetFailureIsMiss ==
    \A r \in Reqs :
        (reqs[r].lookup = "rejected" /\ ReachesAdapter(reqs[r])) =>
            /\ reqs[r].calls = 1
            /\ reqs[r].err # "RedisError"

(* C9: once a request has started its cacher.set, its handler has returned *)
(* and the request has its one response, the success response; this stays  *)
(* so while the write is in flight and after the write has been rejected.  *)
C9_SetNeverFailsRequest ==
    \A r \in Reqs :
        reqs[r].sets > 0 =>
            /\ reqs[r].pc = "done"
            /\ reqs[r].sets = 1
            /\ Len(reqs[r].resps) = 1
            /\ reqs[r].resps[1].status = 200
            /\ reqs[r].resps[1].error = None

\* A write of r was started, has settled and never reached the store.
C9_Witness ==
    \E r \in Reqs :
        /\ HasCacher /\ ~IsMemory
        /\ reqs[r].sets = 1
        /\ \A w \in pending : w.slot # r
        /\ \A i \in 1 .. Len(setLog) : setLog[i].slot # r
        /\ Len(reqs[r].resps) = 1 /\ reqs[r].resps[1].status = 200

(* C10: when the cached string does not parse, the lookup is treated as a  *)
(* miss: a request that calls upstream on a miss calls upstream, and does  *)
(* not fail with the parse error of the cached string.                     *)
C10_MalformedIsMiss ==
    \A r \in Reqs :
        (reqs[r].lookup = "malformed" /\ ReachesAdapter(reqs[r])) =>
            /\ reqs[r].calls = 1
            /\ reqs[r].err # "SyntaxError" \/ reqs[r].up = "SyntaxError"

----------------------------------------------------------------------------
\* The handler of the endpoint has a branch with an adapter call for the
\* provider type.
HasBranch(ep, ptype) ==
    \/ ep \in {"chat", "completion"} /\ ptype \in {"OpenAI", "Azure OpenAI Service"}
    \/ ep \in {"transcriptions", "embeddings"} /\ ptype = "Azure OpenAI Service"

\* The endpoints whose handlers have cache code.
CachedEndpoints == {"chat", "completion", "transcriptions"}

(* C11 (Scenario C): a request whose provider name is no key of the        *)
(* configured providers (or that names no provider) is answered with the   *)
(* invalid-provider error and performs no cacher.get, no cacher.set and no *)
(* upstream call.                                                          *)
C11_UnknownProviderRejected ==
    \A r \in Reqs :
        (Admitted(r) /\ ResolveProvider(reqs[r]) \notin ProviderNames) =>
            /\ reqs[r].resps = <<InvalidProviderResponse>>
            /\ reqs[r].gets = 0 /\ reqs[r].sets = 0 /\ reqs[r].calls = 0

(* C12: a request to a configured provider whose type has no adapter for   *)
(* the endpoint fails with an error response, without cacher.get and       *)
(* without an upstream call.                                               *)
C12_UnsupportedCapabilityFails ==
    \A r \in Reqs :
        ( /\ reqs[r].pc # "idle"
          /\ ResolveProvider(reqs[r]) \in ProviderNames
          /\ ~HasBranch(reqs[r].ep, ProviderType(ResolveProvider(reqs[r]))) ) =>
            /\ reqs[r].gets = 0 /\ reqs[r].calls = 0
            /\ Final(r) => AnsweredFailure(r)

\* A request to an Azure OpenAI Service provider with neither the
\* Azure-OpenAI-Deployment-Id header nor the body field deploymentId.
NoDeployment(req) ==
    /\ ProviderType(ResolveProvider(req)) = "Azure OpenAI Service"
    /\ req.depHdr = None
    /\ ~HasField(req.body, "deploymentId")

(* C13 (Scenario D): a request to an Azure OpenAI Service provider without *)
(* a deployment id is rejected with an error before any cache access and   *)
(* before any upstream call. Stated for the requests that are otherwise    *)
(* in order: the endpoint has an adapter call for the provider, the file   *)
(* is there and the body passes the schema.                                *)
C13_NoDeploymentRejected ==
    \A r \in Reqs :
        (reqs[r].pc # "idle" /\ NoDeployment(reqs[r]) /\ ReachesAdapter(reqs[r])) =>
            /\ reqs[r].gets = 0 /\ reqs[r].calls = 0
            /\ Final(r) => AnsweredFailure(r)

\* The body of the request fails the schema its handler parses it with.
FailsValidation(req) ==
    /\ ResolveProvider(req) \in ProviderNames
    /\ HasBranch(req.ep, ProviderType(ResolveProvider(req)))
    /\ ParseThrows(SchemaOf(req.ep, ProviderType(ResolveProvider(req))), req.body)

(* C14: a request whose payload fails schema validation performs no        *)
(* cacher.get, no cacher.set and no upstream call, and is never answered   *)
(* with a cache HIT.                                                       *)
C14_InvalidPayloadNoIO ==
    \A r \in Reqs :
        (reqs[r].pc # "idle" /\ FailsValidation(reqs[r])) =>
            /\ reqs[r].gets = 0 /\ reqs[r].sets = 0 /\ reqs[r].calls = 0
            /\ ~AnsweredHit(r)

\* The cacher.set calls of request r: in flight, or in the write history.
WritesOf(r) ==
    Cardinality({w \in pending : w.slot = r})
      + Cardinality({i \in 1 .. Len(setLog) : setLog[i].slot = r})

(* C15: each invocation of a handler performs at most one upstream call    *)
(* and at most one cacher.set, on every control path; a hit performs       *)
(* neither.                                                                *)
C15_AtMostOneCallAndSet ==
    \A r \in Reqs :
        /\ reqs[r].calls <= 1
        /\ reqs[r].sets <= 1
        /\ WritesOf(r) <= 1
        /\ reqs[r].lookup = "hit" => (reqs[r].calls = 0 /\ reqs[r].sets = 0)

\* One request went through miss, upstream call and write, the other was a
\* hit.
C15_Witness ==
    \E r, q \in Reqs :
        /\ reqs[q].lookup = "miss" /\ reqs[q].calls = 1 /\ reqs[q].sets = 1
        /\ WritesOf(q) = 1 /\ reqs[q].pc = "done"
        /\ reqs[r].lookup = "hit" /\ reqs[r].pc = "done"

(* C16: on /chat/completion and /completion the body sent on a HIT is      *)
(* equal to the body sent on the miss that populated the entry: no member  *)
(* is added, removed or changed.                                           *)
C16_HitBodyVerbatim ==
    \A r, q \in Reqs :
        ( /\ r # q
          /\ reqs[r].ep \in {"chat", "completion"}
          /\ Len(reqs[q].resps) = 1 /\ reqs[q].resps[1].xcache = None
          /\ reqs[q].resps[1].body.data = ReplyText(q) ) =>
            \A i \in 1 .. Len(reqs[r].resps) :
                ( /\ reqs[r].resps[i].xcache = "HIT"
                  /\ reqs[r].resps[i].body.data = ReplyText(q) ) =>
                    ResponseBody(reqs[r].resps[i]) = ResponseBody(reqs[q].resps[1])

(* C17: on /audio/transcriptions the Content-Type and body sent on a HIT   *)
(* are those the adapter returned for the request that populated the       *)
(* entry, and those sent on that miss.                                     *)
C17_TranscriptionHitPreserved ==
    \A r \in Reqs :
        \A i \in 1 .. Len(reqs[r].resps) :
            (reqs[r].ep = "transcriptions" /\ reqs[r].resps[i].xcache = "HIT") =>
                \E q \in Reqs \ {r} :
                    /\ reqs[q].ep = "transcriptions"
                    /\ CacheKey(reqs[q]) = CacheKey(reqs[r])
                    /\ reqs[q].lookup # "hit"
                    /\ Len(reqs[q].resps) = 1
                    /\ reqs[q].resps[1].contentType = reqs[r].resps[i].contentType
                    /\ reqs[q].resps[1].body = reqs[r].resps[i].body
                    /\ \E v \in AdapterValues("transcriptions", q) :
                          /\ v.contentType = reqs[r].resps[i].contentType
                          /\ v.data = reqs[r].resps[i].body.data

C17_Witness ==
    \E r, q \in Reqs :
        /\ r # q
        /\ reqs[r].ep = "transcriptions" /\ AnsweredHit(r)
        /\ reqs[q].ep = "transcriptions" /\ reqs[q].up = "success"
        /\ reqs[r].resps[1].contentType = "text/plain"
        /\ reqs[r].resps[1].body.data = ReplyText(q)

(* C18: with caching on, every success response of an endpoint with cache  *)
(* code carries X-Cache-Status: HIT when the body came from the cache and  *)
(* X-Cache-Status: MISS when it came from upstream.                        *)
C18_CacheStatusHeader ==
    \A r \in Reqs :
        \A i \in 1 .. Len(reqs[r].resps) :
            ( /\ HasCacher
              /\ reqs[r].ep \in CachedEndpoints
              /\ reqs[r].resps[i].status = 200 ) =>
                reqs[r].resps[i].xcache =
                    (IF reqs[r].lookup = "hit" THEN "HIT" ELSE "MISS")

----------------------------------------------------------------------------
(* MemoryCacher taken alone: set, get and the sweep under a clock that     *)
(* advances in half seconds. The sweep timer is created with the object    *)
(* (purgeInterval is a field initializer) whatever the ttl; its phase      *)
(* relative to the set calls is arbitrary. A sweep removes what get calls  *)
(* on every key would remove, so sweeps closer together than the timer's   *)
(* period reach no state that one sweep and get calls do not reach.        *)

StoreKeys == {"k1", "k2"}
StoreValues == {JSONstringify(v) : v \in AdapterValues("chat", 1)}

\* new MemoryCacher(config.cache?.ttl), with and without a ttl.
StoreInit ==
    /\ config \in {c \in Configs : c.enabled /\ c.storage = "memory" /\ ~c.auth}
    /\ cache = EmptyMap
    /\ pending = {}
    /\ now = 0
    /\ reqs = [r \in Reqs |-> IdleReq]
    /\ setLog = <<>>
    /\ purge = Constructed(config)
    /\ image = ImageIdle
    /\ cacherCall = NoCacherCall

\* MemoryCacher.set(k, v)
StoreSet(k, v) ==
    /\ Len(setLog) < MaxSets
    /\ cache' = MemSet(cache, k, v, config.ttl, now)
    /\ setLog' = Append(setLog, [slot |-> 0, key |-> k, value |-> v,
                                 up |-> None, at |-> now])
    /\ UNCHANGED <<purge, image, cacherCall, config, pending, now, reqs>>

\* MemoryCacher.get(k): it returns MemGetValue(cache, k, now) and deletes
\* the entry when that has expired.
StoreGet(k) ==
    /\ cache' = MemGetMap(cache, k, now)
    /\ UNCHANGED <<purge, image, cacherCall, config, pending, now, reqs, setLog>>

\* The callback of purgeInterval runs.
StorePurge ==
    /\ purge.timer = "running"
    /\ cache' = Purge(cache, now)
    /\ UNCHANGED <<purge, image, cacherCall, config, pending, now, reqs, setLog>>

\* Half a second passes.
StoreTick ==
    /\ now < MaxTicks * 1000
    /\ now' = now + 500
    /\ UNCHANGED <<purge, image, cacherCall, config, cache, pending, reqs, setLog>>

StoreNext ==
    \/ \E k \in StoreKeys, v \in StoreValues : StoreSet(k, v)
    \/ \E k \in StoreKeys : StoreGet(k)
    \/ StorePurge
    \/ StoreTick

StoreSpec == StoreInit /\ [][StoreNext]_vars

\* The latest set(k, v): its value and time.
WasSet(k) == \E i \in 1 .. Len(setLog) : setLog[i].key = k
LastSet(k) ==
    setLog[CHOOSE i \in 1 .. Len(setLog) :
              /\ setLog[i].key = k
              /\ \A j \in (i + 1) .. Len(setLog) : setLog[j].key # k]

(* C19: with a ttl of T seconds, after set(k, v) at time t0 a get(k)       *)
(* returns v at every time up to and including t0 + T and null at every    *)
(* time after it, whether or not get or the sweep has removed the entry.   *)
C19_TtlExpiry ==
    config.ttl # 0 =>
        \A k \in StoreKeys :
            WasSet(k) =>
                MemGetValue(cache, k, now) =
                    (IF now <= LastSet(k).at + config.ttl * 1000
                     THEN LastSet(k).value ELSE Null)

\* One key is at its deadline and still returned; the other is past its
\* deadline and physically still in the Map.
C19_Witness ==
    /\ config.ttl # 0
    /\ \E a, b \in StoreKeys :
          /\ WasSet(a) /\ now = LastSet(a).at + config.ttl * 1000
          /\ MemGetValue(cache, a, now) = LastSet(a).value
          /\ WasSet(b) /\ now > LastSet(b).at + config.ttl * 1000
          /\ b \in DOMAIN cache
          /\ MemGetValue(cache, b, now) = Null

(* C20: with a ttl of zero (or none) entries never expire: after           *)
(* set(k, v) a get(k) returns v at every later time until k is set again,  *)
(* and neither get nor the sweep removes k.                                *)
C20_NoTtlNeverExpires ==
    config.ttl = 0 =>
        \A k \in StoreKeys :
            WasSet(k) =>
                /\ k \in DOMAIN cache
                /\ ~cache[k].hasExpires
                /\ MemGetValue(cache, k, now) = LastSet(k).value

\* An entry is still returned later than any configured ttl would allow.
C20_Witness ==
    /\ config.ttl = 0
    /\ \E k \in StoreKeys :
          /\ WasSet(k) /\ now > LastSet(k).at + TtlSeconds * 1000
          /\ MemGetValue(cache, k, now) = LastSet(k).value

\* The step is a set: it appends the write to the history.
SetStep == Len(setLog') = Len(setLog) + 1
NewWrite == setLog'[Len(setLog')]

(* C21: set(k, v2) on a key that holds v1 replaces the value and resets    *)
(* the expiry to ttl seconds after this set: the entry is in the Map with  *)
(* the new value and the new deadline, and is read until that deadline     *)
(* also when the deadline of the earlier set has passed.                   *)
C21_OverwriteResetsExpiry ==
    \A k \in StoreKeys :
        ( /\ WasSet(k)
          /\ Cardinality({i \in 1 .. Len(setLog) : setLog[i].key = k}) > 1
          /\ now <= LastSet(k).at + config.ttl * 1000 ) =>
            /\ k \in DOMAIN cache
            /\ cache[k].value = LastSet(k).value
            /\ cache[k].hasExpires =>
                  cache[k].expires = LastSet(k).at + config.ttl * 1000
            /\ MemGetValue(cache, k, now) = LastSet(k).value

\* v1 was set, then v2 later; the deadline of the first set has passed and
\* v2 is read.
C21_Witness ==
    /\ config.ttl # 0
    /\ \E k \in StoreKeys, i, j \in 1 .. Len(setLog) :
          /\ i < j /\ setLog[i].key = k /\ setLog[j].key = k
          /\ setLog[i].value # setLog[j].value
          /\ setLog[j] = LastSet(k)
          /\ now > setLog[i].at + config.ttl * 1000
          /\ now <= setLog[j].at + config.ttl * 1000
          /\ MemGetValue(cache, k, now) = setLog[j].value

(* C22: after set(k, v), get(k) returns v; a set(k, v) on a key for which  *)
(* get(k) already returns v leaves what get(k) returns and leaves the set  *)
(* of the other keys present as they were.                                 *)
C22_SetIdempotent ==
    [][SetStep =>
          /\ MemGetValue(cache', NewWrite.key, now') = NewWrite.value
          /\ MemGetValue(cache, NewWrite.key, now) = NewWrite.value =>
                /\ MemGetValue(cache', NewWrite.key, now') =
                      MemGetValue(cache, NewWrite.key, now)
                /\ DOMAIN cache' \ {NewWrite.key} = DOMAIN cache \ {NewWrite.key}]_vars

\* The same value was set twice in a row under a key while another key is
\* present.
C22_Witness ==
    \E i \in 1 .. Len(setLog) :
        /\ i + 1 <= Len(setLog)
        /\ setLog[i].key = setLog[i + 1].key
        /\ setLog[i].value = setLog[i + 1].value
        /\ setLog[i + 1] = LastSet(setLog[i].key)
        /\ MemGetValue(cache, setLog[i].key, now) = setLog[i].value
        /\ \E k \in DOMAIN cache : k # setLog[i].key

----------------------------------------------------------------------------
(* MemoryCacher when no entry is read: set, the sweep and the clock. The   *)
(* timer of purgeInterval keeps firing while the program runs.             *)

SweepNext ==
    \/ \E k \in StoreKeys, v \in StoreValues : StoreSet(k, v)
    \/ StorePurge
    \/ StoreTick

SweepSpec == StoreInit /\ [][SweepNext]_vars /\ WF_vars(StorePurge)

\* The entry of k is in the Map and has expired.
ExpiredPresent(k) == k \in DOMAIN cache /\ Expired(cache[k], now)

(* C23: with a ttl, an entry that has expired is eventually removed from   *)
(* the Map by the sweep although it is never read, and a sweep removes no  *)
(* entry that has not expired.                                             *)
C23_SweepRemovesExpired ==
    /\ \A k \in StoreKeys : ExpiredPresent(k) ~> ~ExpiredPresent(k)
    /\ [][StorePurge =>
            \A k \in DOMAIN cache : k \notin DOMAIN cache' => Expired(cache[k], now)]_vars

\* An entry was removed without any read, while an entry that has not
\* expired is still there.
C23_Witness ==
    /\ config.ttl # 0
    /\ \E a, b \in StoreKeys :
          /\ WasSet(a) /\ a \notin DOMAIN cache
          /\ now > LastSet(a).at + config.ttl * 1000
          /\ WasSet(b) /\ b \in DOMAIN cache /\ ~Expired(cache[b], now)

(* C24: a set(k, v) changes only the entry of k: for every other key the   *)
(* entry and the result of get are the same before and after the write;    *)
(* and what get(k) returns was written by a set on k.                      *)
C24_PerKeyIsolation ==
    [][/\ SetStep =>
            \A k \in StoreKeys \ {NewWrite.key} :
                /\ (k \in DOMAIN cache') = (k \in DOMAIN cache)
                /\ k \in DOMAIN cache => cache'[k] = cache[k]
                /\ MemGetValue(cache', k, now') = MemGetValue(cache, k, now)
       /\ \A k \in StoreKeys :
            MemGetValue(cache', k, now') # Null =>
                \E i \in 1 .. Len(setLog') :
                    /\ setLog'[i].key = k
                    /\ setLog'[i].value = MemGetValue(cache', k, now')]_vars

\* Two keys hold different values, each the one written under it.
C24_Witness ==
    \E a, b \in StoreKeys :
        /\ a # b /\ WasSet(a) /\ WasSet(b)
        /\ LastSet(a).value # LastSet(b).value
        /\ MemGetValue(cache, a, now) = LastSet(a).value
        /\ MemGetValue(cache, b, now) = LastSet(b).value

----------------------------------------------------------------------------
\* The writes that reached the store under key, by their place in the
\* history.
WritesTo(key) == {i \in 1 .. Len(setLog) : setLog[i].key = key}
LastWriteTo(key) ==
    setLog[CHOOSE i \in WritesTo(key) : \A j \in WritesTo(key) : j <= i]

\* Two requests with the same key both missed the cache and both got a
\* reply from upstream; both handlers have ended and none of their writes
\* is in flight.
Stampede(r, q) ==
    /\ r # q
    /\ CacheKey(reqs[r]) = CacheKey(reqs[q])
    /\ \A x \in {r, q} :
          /\ reqs[x].lookup = "miss" /\ reqs[x].calls = 1
          /\ reqs[x].up \in {"success", "error"}
          /\ Final(x)
          /\ \A w \in pending : w.slot # x

(* C25: two identical requests can both miss and both call upstream (no    *)
(* single flight); when both have completed, the store holds under their   *)
(* key the value that was written last.                                    *)
C25_StampedeLastWriteWins ==
    \A r, q \in Reqs :
        (Stampede(r, q) /\ WritesTo(CacheKey(reqs[r])) # {}) =>
            /\ CacheKey(reqs[r]) \in DOMAIN cache
            /\ cache[CacheKey(reqs[r])].value = LastWriteTo(CacheKey(reqs[r])).value

\* Both requests were waiting for upstream at the same time (the second
\* one looked up before the first one wrote), both wrote, and the entry is
\* the later write.
C25_Witness ==
    \E r, q \in Reqs :
        /\ Stampede(r, q) /\ SameRequest(reqs[r], reqs[q])
        /\ \E i, j \in 1 .. Len(setLog) :
              /\ i < j /\ j = Len(setLog)
              /\ setLog[i].slot = q /\ setLog[j].slot = r
              /\ setLog[i].value # setLog[j].value
              /\ cache[CacheKey(reqs[r])].value = setLog[j].value

\* The members of a body, whatever their order.
Members(data) == {data[i] : i \in 1 .. Len(data)}

(* C26: two requests to the same endpoint and provider whose bodies have   *)
(* the same fields with the same values, in whatever order, have the same  *)
(* cache key.                                                              *)
C26_FieldOrderSameKey ==
    \A r, q \in Reqs :
        ( /\ Admitted(r) /\ Admitted(q)
          /\ reqs[r].ep = reqs[q].ep
          /\ ResolveProvider(reqs[r]) = ResolveProvider(reqs[q])
          /\ reqs[r].file = reqs[q].file
          /\ Members(reqs[r].body) = Members(reqs[q].body) ) =>
            CacheKey(reqs[r]) = CacheKey(reqs[q])

\* The payload of a request: the members of its body other than provider.
Payload(req) == {m \in Members(req.body) : m[1] # "provider"}

(* C27: two requests with the same provider name, endpoint and payload     *)
(* have the same cache key, whether the provider is named in the body      *)
(* field provider or in the X-Provider header.                             *)
C27_ProviderPlaceSameKey ==
    \A r, q \in Reqs :
        ( /\ Admitted(r) /\ Admitted(q)
          /\ reqs[r].ep = reqs[q].ep
          /\ ResolveProvider(reqs[r]) = ResolveProvider(reqs[q])
          /\ reqs[r].file = reqs[q].file
          /\ Payload(reqs[r]) = Payload(reqs[q])
          /\ HasField(reqs[r].body, "provider") # HasField(reqs[q].body, "provider") ) =>
            CacheKey(reqs[r]) = CacheKey(reqs[q])

(* C28: with caching on, a /completion, /chat/completion or /embeddings    *)
(* request without no-cache that gets a reply from upstream has performed  *)
(* cacher.get before the call and cacher.set after it.                     *)
C28_AllThreeEndpointsCache ==
    \A r \in Reqs :
        ( /\ HasCacher
          /\ reqs[r].ep \in {"completion", "chat", "embeddings"}
          /\ ~reqs[r].noCache
          /\ reqs[r].calls = 1 /\ reqs[r].up \in {"success", "error"} ) =>
            reqs[r].gets = 1 /\ reqs[r].sets = 1

\* const deploymentId = req.header("Azure-OpenAI-Deployment-Id") || data.deploymentId
ResolvedDeployment(req) ==
    IF req.depHdr # None THEN req.depHdr ELSE Field(req.body, "deploymentId")

(* C29: on an Azure OpenAI Service provider a cached response is returned  *)
(* only to a request that resolves to the deployment id of the request     *)
(* that populated the entry.                                               *)
C29_HitSameDeployment ==
    \A r, q \in Reqs :
        ( /\ r # q
          /\ ProviderType(ResolveProvider(reqs[r])) = "Azure OpenAI Service"
          /\ ResolvedDeployment(reqs[r]) # None
          /\ reqs[q].dep # None ) =>
            \A i \in 1 .. Len(reqs[r].resps) :
                ( /\ reqs[r].resps[i].xcache = "HIT"
                  /\ reqs[r].resps[i].body.data = ReplyText(q) ) =>
                    ResolvedDeployment(reqs[r]) = reqs[q].dep

\* No handler ran for request r.
NoHandler(r) ==
    /\ reqs[r].pc = "done"
    /\ reqs[r].gets = 0 /\ reqs[r].sets = 0 /\ reqs[r].calls = 0
    /\ reqs[r].lookup = None
    /\ \A w \in pending : w.slot # r
    /\ \A i \in 1 .. Len(setLog) : setLog[i].slot # r

----------------------------------------------------------------------------
(* The life of a MemoryCacher: the store is used while the program is      *)
(* loaded, then the program unloads.                                       *)

\* The program exits: the unload event is dispatched.
Unload ==
    /\ purge.loaded
    /\ purge' = Unloaded(purge)
    /\ UNCHANGED <<config, cache, pending, now, reqs, setLog, image, cacherCall>>

LifeNext ==
    \/ \E k \in StoreKeys, v \in StoreValues : purge.loaded /\ StoreSet(k, v)
    \/ \E k \in StoreKeys : purge.loaded /\ StoreGet(k)
    \/ purge.loaded /\ StorePurge
    \/ purge.loaded /\ StoreTick
    \/ Unload

LifeSpec == StoreInit /\ [][LifeNext]_vars

(* C31: the in-process store runs its purge timer only when a ttl is       *)
(* configured, and a running purge timer is cleared when the program       *)
(* unloads: after the unload no timer is left running.                     *)
C31_PurgeOnlyWithTtlAndCleared ==
    /\ purge.timer = "running" => config.ttl # 0
    /\ ~purge.loaded => purge.timer # "running"

----------------------------------------------------------------------------
(* azoai.imageGeneration: the submit, then the polls of the operation.     *)
(* Every await settles: a fetch is answered or fails, the timer fires.     *)

\* while (!success && tries < 10)
MaxTries == 10

\* What the submit brings: an OK reply with a JSON body, a non-OK reply, a
\* failed fetch, an OK reply whose body is not JSON.
SubmitReplies == {"ok", "notOk", "FetchError", "SyntaxError"}

\* resultJson.status of a poll (None: the body has no status), and what a
\* poll throws instead: a failed fetch, a body that is not JSON.
PollStatuses == {None, "notRunning", "running", "succeeded", "failed", "canceled", "deleted"}
PollErrors == {"FetchError", "SyntaxError"}
FailureStatuses == {"failed", "canceled", "deleted"}

ImageThrow(img, err) == [img EXCEPT !.pc = "thrown", !.outcome = err]

\* Variant: the loop runs while tries <= 10.
LoopContinuesInclusive(tries) ==
    tries <= MaxTries

\* The loop condition (success is set only right before the return).
LoopContinues(tries) ==
    tries < MaxTries

\* The top of the loop: the next poll is fetched, or the loop is left and
\* the timeout error thrown.
LoopTop(img) ==
    IF LoopContinues(img.tries)
    THEN [img EXCEPT !.pc = "poll"]
    ELSE ImageThrow(img, "TimedOut")

\* imageGeneration is called: the submit is fetched.
ImageCall ==
    /\ image.pc = "idle"
    /\ image' = [image EXCEPT !.pc = "submit"]
    /\ UNCHANGED <<purge, cacherCall, config, cache, pending, now, reqs, setLog>>

\* The submit settles: if (!resp.ok) throw, else json = await resp.json()
\* and the loop starts with tries = 0.
ImageSubmitReply ==
    /\ image.pc = "submit"
    /\ \E rep \in SubmitReplies :
         image' = CASE rep = "ok" -> LoopTop(image)
                    [] rep = "notOk" -> ImageThrow(image, "NonOkResponse")
                    [] OTHER -> ImageThrow(image, rep)
    /\ UNCHANGED <<purge, cacherCall, config, cache, pending, now, reqs, setLog>>

\* A poll settles: return on succeeded, throw on failed, canceled or
\* deleted, else wait one second.
ImagePollReply ==
    /\ image.pc = "poll"
    /\ \E x \in PollStatuses \cup PollErrors :
         image' =
            LET polled == [image EXCEPT !.polls = @ + 1]
            IN  CASE x \in PollErrors -> ImageThrow(polled, x)
                  [] x = "succeeded" ->
                        [polled EXCEPT !.pc = "returned", !.last = x, !.outcome = "result"]
                  [] x \in FailureStatuses ->
                        ImageThrow([polled EXCEPT !.last = x], "GenerationFailed")
                  [] OTHER -> [polled EXCEPT !.pc = "sleep", !.last = x]
    /\ UNCHANGED <<purge, cacherCall, config, cache, pending, now, reqs, setLog>>

\* The one-second timer fires: tries++ and back to the top of the loop.
ImageTimer ==
    /\ image.pc = "sleep"
    /\ image' = LoopTop([image EXCEPT !.tries = @ + 1])
    /\ UNCHANGED <<purge, cacherCall, config, cache, pending, now, reqs, setLog>>

ImageInit ==
    /\ config \in {c \in Configs : ~c.enabled}
    /\ cache = EmptyMap
    /\ pending = {}
    /\ now = 0
    /\ reqs = [r \in Reqs |-> IdleReq]
    /\ setLog = <<>>
    /\ purge = Constructed(config)
    /\ image = ImageIdle
    /\ cacherCall = NoCacherCall

ImageNext ==
    \/ ImageCall
    \/ ImageSubmitReply
    \/ ImagePollReply
    \/ ImageTimer

ImageSpec == ImageInit /\ [][ImageNext]_vars /\ WF_vars(ImageNext)

ImageEnded == image.pc \in {"returned", "thrown"}

(* C32: imageGeneration ends. A non-OK submit throws without a poll.       *)
(* Otherwise there are at most 10 polls: the first poll with status        *)
(* succeeded returns the result, the first poll with status failed,        *)
(* canceled or deleted throws, and the timeout error is thrown after the   *)
(* 10th poll, exactly when all 10 polls brought a status that is neither.  *)
C32_ImageGenerationTerminates ==
    /\ <>ImageEnded
    /\ [](/\ image.polls <= MaxTries
          /\ image.outcome = "NonOkResponse" => image.polls = 0
          /\ image.pc \in {"poll", "sleep"} =>
                image.last \notin FailureStatuses \cup {"succeeded"}
          /\ image.pc = "returned" =>
                image.last = "succeeded" /\ image.polls = image.tries + 1
          /\ image.outcome = "GenerationFailed" =>
                image.last \in FailureStatuses /\ image.polls = image.tries + 1
          /\ image.outcome = "TimedOut" <=>
                /\ image.pc = "thrown"
                /\ image.polls = MaxTries /\ image.tries = MaxTries
                /\ image.last \notin FailureStatuses \cup {"succeeded"})

\* Ten polls without a terminal status, then the timeout error.
C32_Witness ==
    /\ image.outcome = "TimedOut"
    /\ image.polls = MaxTries
    /\ image.last = "running"

----------------------------------------------------------------------------
(* getCacher: the choice of the store from config.cache                    *)

\* config.cache.hostname: undefined, the empty string, a host name.
Hostnames == {None, "", "localhost"}

\* config.cache.port: undefined, 0, a port number.
Ports ==
    { [defined |-> FALSE, n |-> 0],
      [defined |-> TRUE,  n |-> 0],
      [defined |-> TRUE,  n |-> 6379] }

\* config.cache as the type Config allows it: absent, or a section with
\* enabled, ttl, storage and the optional hostname and port.
CacheSections ==
    { [present |-> FALSE, enabled |-> FALSE, ttl |-> 0, storage |-> "memory",
       hostname |-> None, port |-> [defined |-> FALSE, n |-> 0]] }
    \cup [present : {TRUE}, enabled : BOOLEAN, ttl : {0, TtlSeconds},
          storage : {"redis", "memory"}, hostname : Hostnames, port : Ports]

\* !x for a string and for a number: undefined, "" and 0 are falsy.
FalsyString(h) == h \in {None, ""}
FalsyNumber(p) == ~p.defined \/ p.n = 0

\* Variant: hostname and port are tested for being defined.
getCacherByPresence(section) ==
    IF section.present /\ section.storage = "redis"
    THEN IF section.hostname = None \/ ~section.port.defined
         THEN "Error"
         ELSE "RedisCacher"
    ELSE "MemoryCacher"

\* getCacher(config): what it returns, or that it throws.
getCacher(section) ==
    IF section.present /\ section.storage = "redis"
    THEN IF FalsyString(section.hostname) \/ FalsyNumber(section.port)
         THEN "Error"
         ELSE "RedisCacher"
    ELSE "MemoryCacher"

GetCacherInit ==
    /\ config \in {c \in Configs : ~c.enabled}
    /\ cache = EmptyMap
    /\ pending = {}
    /\ now = 0
    /\ reqs = [r \in Reqs |-> IdleReq]
    /\ setLog = <<>>
    /\ purge = Constructed(config)
    /\ image = ImageIdle
    /\ \E section \in CacheSections :
          cacherCall = [section |-> section, result |-> None]

\* getCacher is called with the section.
GetCacherCall ==
    /\ cacherCall.result = None
    /\ cacherCall' = [cacherCall EXCEPT !.result = getCacher(cacherCall.section)]
    /\ UNCHANGED <<purge, image, config, cache, pending, now, reqs, setLog>>

GetCacherNext == GetCacherCall

GetCacherSpec == GetCacherInit /\ [][GetCacherNext]_vars

====
